---------------------------- MODULE Spec2Model ----------------------------
(***************************************************************************)
(* Model of pitch_corrector.py: the vinyl-style pitch correction pipeline  *)
(* (main -> process_audio_file -> vinyl_pitch_shift, the output planning,  *)
(* the lossless write and the ffmpeg transcode with progress tracking).    *)
(*                                                                         *)
(* Representation choices                                                  *)
(*  - A file suffix is a sequence of one-character strings, so that        *)
(*    str.lower() is computed character by character.                      *)
(*  - Semitones are integers that are multiples of 3 in [-12, 12].  The    *)
(*    real number 2^(s/12) is then held exactly through its fourth power   *)
(*    2^(s/3), a rational p4num/p4den, and int(sr / ratio) is computed     *)
(*    exactly with integer arithmetic.                                     *)
(*  - A percentage is a rational; it is held as its numerator over the     *)
(*    fixed denominator PctDen (1000000 * frames of the shifted audio).    *)
(*  - A file on disk is "absent", "partial" or "complete".                 *)
(***************************************************************************)
EXTENDS Integers, Sequences, FiniteSets, TLC

\* ------------------------------------------------------------ bounds
MaxRate == 3
MaxFrames == 2
MaxSeconds == 2
MaxLines == 2

\* ------------------------------------------------------------ constants
MaxSemitones == 12
MicrosPerSecond == 1000000
FullPercent == 100

Min(a, b) == IF a <= b THEN a ELSE b

Pow4(x) == x * x * x * x

RECURSIVE Pow2(_)
Pow2(n) == IF n <= 0 THEN 1 ELSE 2 * Pow2(n - 1)

\* ------------------------------------------------------------ inputs
\* get_pitch_adjustment accepts a float with abs(semitones) <= 12
Semitones == {s \in (0 - MaxSemitones)..MaxSemitones : s % 3 = 0}

SampleRates == 1..MaxRate

\* decoded audio: a sequence of channels of equal length (mono or stereo)
AudioOf(channels, frames) ==
    [c \in 1..channels |-> [i \in 1..frames |-> (c + i) % 3]]

AudioBuffers ==
    {AudioOf(c, f) : c \in {1, 2}, f \in 1..MaxFrames}

Frames(audio) == IF Len(audio) = 0 THEN 0 ELSE Len(audio[1])

\* str.lower(), one character at a time
LowerChar(ch) ==
    CASE ch = "A" -> "a" [] ch = "C" -> "c" [] ch = "F" -> "f"
      [] ch = "L" -> "l" [] ch = "M" -> "m" [] ch = "O" -> "o"
      [] ch = "P" -> "p" [] ch = "S" -> "s" [] ch = "U" -> "u"
      [] ch = "V" -> "v" [] ch = "W" -> "w" [] ch = "G" -> "g"
      [] OTHER -> ch

Lower(s) == [i \in DOMAIN s |-> LowerChar(s[i])]

get_supported_formats ==
    { <<".", "w", "a", "v">>, <<".", "f", "l", "a", "c">>,
      <<".", "a", "i", "f", "f">>, <<".", "a", "i", "f">>,
      <<".", "a", "i", "f", "c">>, <<".", "a", "u">>, <<".", "s", "n", "d">>,
      <<".", "m", "p", "3">>, <<".", "m", "4", "a">>,
      <<".", "o", "g", "g">>, <<".", "o", "p", "u", "s">> }

\* the suffixes the file given to the pipeline may carry
InputSuffixes ==
    { <<".", "m", "p", "3">>, <<".", "M", "P", "3">>,
      <<".", "w", "a", "v">>, <<".", "o", "g", "g">>,
      <<".", "m", "4", "a">>, <<".", "M", "4", "A">>,
      <<".", "o", "p", "u", "s">> }

validate_audio_file(suffix) == Lower(suffix) \in get_supported_formats

\* what sf.SoundFile(input_path, 'r') reports, or that it raised
Introspections ==
    { [ok |-> FALSE, format |-> "none", subtype |-> "none"],
      [ok |-> TRUE, format |-> "WAV", subtype |-> "PCM_16"],
      [ok |-> TRUE, format |-> "FLAC", subtype |-> "PCM_24"],
      [ok |-> TRUE, format |-> "OGG", subtype |-> "VORBIS"] }

\* ------------------------------------------------------------ pure functions
\* 2.0 ** (semitones / 12.0), held through its fourth power p4num / p4den
semitones_to_ratio(semitones) ==
    [ p4num |-> IF semitones >= 0 THEN Pow2(semitones \div 3) ELSE 1,
      p4den |-> IF semitones < 0 THEN Pow2((0 - semitones) \div 3) ELSE 1 ]

\* int(sr / speed_ratio): the quotient truncated (sr > 0, so the floor)
IntDiv(sr, ratio) ==
    CHOOSE t \in 0..(2 * sr) :
        /\ Pow4(t) * ratio.p4num <= Pow4(sr) * ratio.p4den
        /\ Pow4(t + 1) * ratio.p4num > Pow4(sr) * ratio.p4den

\* librosa.resample(y, orig_sr, target_sr): ceil(len * target_sr / orig_sr)
\* samples; the content stands for the band-limited interpolation
resample(y, orig_sr, target_sr) ==
    LET n == (Len(y) * target_sr + orig_sr - 1) \div orig_sr
    IN  [i \in 1..n |-> y[Min(Len(y), (((i - 1) * orig_sr) \div target_sr) + 1)]]

\* variant: the `if semitones == 0` shortcut left out
vinyl_pitch_shift_noshortcut(audio_data, sr, semitones) ==
    LET target_sr == IntDiv(sr, semitones_to_ratio(semitones))
    IN  [ raised |-> target_sr < 1,
          audio  |-> IF target_sr < 1 THEN <<>>
                     ELSE resample(audio_data, sr, target_sr),
          calls  |-> <<[orig_sr |-> sr, target_sr |-> target_sr]>> ]

\* vinyl_pitch_shift: the returned buffer, the calls made to the resampler,
\* and whether the resampler raised (a target rate below 1)
vinyl_pitch_shift(audio_data, sr, semitones) ==
    IF semitones = 0
    THEN [raised |-> FALSE, audio |-> audio_data, calls |-> <<>>]
    ELSE LET target_sr == IntDiv(sr, semitones_to_ratio(semitones))
         IN  [ raised |-> target_sr < 1,
               audio  |-> IF target_sr < 1 THEN <<>>
                          ELSE resample(audio_data, sr, target_sr),
               calls  |-> <<[orig_sr |-> sr, target_sr |-> target_sr]>> ]

Mp3Suffix == <<".", "m", "p", "3">>
FlacSuffix == <<".", "f", "l", "a", "c">>
LosslessFallbackExts == { <<".", "m", "4", "a">>, <<".", "o", "p", "u", "s">> }

\* the format probe of process_audio_file: the except branch sets defaults
ProbeFormat(probe) ==
    IF probe.ok
    THEN [can_preserve_format |-> TRUE, original_format |-> probe.format,
          original_subtype |-> probe.subtype]
    ELSE [can_preserve_format |-> FALSE, original_format |-> "WAV",
          original_subtype |-> "PCM_24"]

\* variant: the suffix compared without .lower()
PlanOutput_rawsuffix(suffix, probe) ==
    LET f == ProbeFormat(probe)
    IN  IF suffix = Mp3Suffix
        THEN [output_suffix |-> suffix, output_format |-> "WAV",
              output_subtype |-> "PCM_16", will_convert_to_mp3 |-> TRUE]
        ELSE IF suffix \in LosslessFallbackExts \/ ~f.can_preserve_format
        THEN [output_suffix |-> FlacSuffix, output_format |-> "FLAC",
              output_subtype |-> "PCM_24", will_convert_to_mp3 |-> FALSE]
        ELSE [output_suffix |-> suffix, output_format |-> f.original_format,
              output_subtype |-> f.original_subtype,
              will_convert_to_mp3 |-> FALSE]

\* variant: `or not can_preserve_format` left out of the elif
PlanOutput_noprobe(suffix, probe) ==
    LET input_ext == Lower(suffix)
        f == ProbeFormat(probe)
    IN  IF input_ext = Mp3Suffix
        THEN [output_suffix |-> suffix, output_format |-> "WAV",
              output_subtype |-> "PCM_16", will_convert_to_mp3 |-> TRUE]
        ELSE IF input_ext \in LosslessFallbackExts
        THEN [output_suffix |-> FlacSuffix, output_format |-> "FLAC",
              output_subtype |-> "PCM_24", will_convert_to_mp3 |-> FALSE]
        ELSE [output_suffix |-> suffix, output_format |-> f.original_format,
              output_subtype |-> f.original_subtype,
              will_convert_to_mp3 |-> FALSE]

\* the output decision of process_audio_file (the if / elif / else chain)
PlanOutput(suffix, probe) ==
    LET input_ext == Lower(suffix)
        f == ProbeFormat(probe)
    IN  IF input_ext = Mp3Suffix
        THEN [output_suffix |-> suffix, output_format |-> "WAV",
              output_subtype |-> "PCM_16", will_convert_to_mp3 |-> TRUE]
        ELSE IF input_ext \in LosslessFallbackExts \/ ~f.can_preserve_format
        THEN [output_suffix |-> FlacSuffix, output_format |-> "FLAC",
              output_subtype |-> "PCM_24", will_convert_to_mp3 |-> FALSE]
        ELSE [output_suffix |-> suffix, output_format |-> f.original_format,
              output_subtype |-> f.original_subtype,
              will_convert_to_mp3 |-> FALSE]

NoPlan ==
    [output_suffix |-> <<>>, output_format |-> "none",
     output_subtype |-> "none", will_convert_to_mp3 |-> FALSE]


\* ------------------------------------------------------------ state
VARIABLES
    entry,            \* "main": run through main(); "call": process_audio_file called directly
    input_suffix,     \* Path(input_path).suffix
    semitones,        \* the adjustment
    sample_rate,      \* the rate librosa.load reports
    audio_data,       \* the decoded channels
    probe,            \* what the format probe of the input file yields
    pc,               \* position of the control thread
    shifted_channels, \* the channels shifted so far
    resample_calls,   \* the calls made to librosa.resample, in order
    plan,             \* output_format, output_subtype, will_convert_to_mp3
    files,            \* state of output_path, temp_wav_path, final_mp3_path
    popen_calls,      \* state of temp_wav_path at each subprocess.Popen
    enc_state,        \* the ffmpeg process: "none", "running", "exited"
    enc_exit,         \* its exit code, <<>> while it has none
    pipe,             \* lines written to its stdout and not yet read
    emitted,          \* number of lines it has written
    last_progress,    \* last_progress * PctDen
    pbar_n,           \* position of the "MP3 encoding" bar * PctDen
    returncode,       \* process.returncode, <<>> for None
    error,            \* which exception process_audio_file caught last
    result,           \* what process_audio_file returned: "none", "True", "False"
    report            \* what main printed at its end

vars == << entry, input_suffix, semitones, sample_rate, audio_data, probe, pc,
           shifted_channels, resample_calls, plan, files, popen_calls,
           enc_state, enc_exit, pipe, emitted, last_progress, pbar_n,
           returncode, error, result, report >>

inputs == << entry, input_suffix, semitones, sample_rate, audio_data, probe >>
encoder == << enc_state, enc_exit, pipe, emitted >>
progress_vars == << last_progress, pbar_n >>
shift_vars == << shifted_channels, resample_calls >>

ExitCodes == {0, 1}

\* the lines ffmpeg -progress pipe:1 writes
ProgressLines ==
    {[key |-> "out_time_ms", numeric |-> TRUE, value |-> k * MicrosPerSecond] :
        k \in 0..MaxSeconds}
    \cup {[key |-> "out_time_ms", numeric |-> FALSE, value |-> 0],
          [key |-> "progress", numeric |-> FALSE, value |-> 0]}

ShiftedFrames == Frames(shifted_channels)

\* denominator of the percentages: duration_seconds = frames / sample_rate
PctDen == MicrosPerSecond * ShiftedFrames

\* min(100, (current_seconds / duration_seconds) * 100), times PctDen
ProgressOf(time_ms) ==
    Min(FullPercent * PctDen, time_ms * sample_rate * FullPercent)

\* A run starts in main() with the file and the adjustment the prompts
\* accepted, or in a direct call of process_audio_file; a direct call with a
\* non-zero adjustment runs exactly as the call main() makes, so the direct
\* calls kept are those with the adjustment main() never passes on: 0.
Init ==
    /\ entry \in {"main", "call"}
    /\ input_suffix \in InputSuffixes
    /\ validate_audio_file(input_suffix)
    /\ semitones \in Semitones
    /\ entry = "call" => semitones = 0
    /\ sample_rate \in SampleRates
    /\ audio_data \in AudioBuffers
    /\ probe \in Introspections
    /\ pc = IF entry = "main" THEN "main" ELSE "load"
    /\ shifted_channels = <<>>
    /\ resample_calls = <<>>
    /\ plan = NoPlan
    /\ files = [output |-> "absent", temp_wav |-> "absent", final_mp3 |-> "absent"]
    /\ popen_calls = <<>>
    /\ enc_state = "none"
    /\ enc_exit = <<>>
    /\ pipe = <<>>
    /\ emitted = 0
    /\ last_progress = 0
    /\ pbar_n = 0
    /\ returncode = <<>>
    /\ error = "none"
    /\ result = "none"
    /\ report = "none"

\* process_audio_file returns res to its caller
Return(res) ==
    /\ result' = res
    /\ pc' = IF entry = "main" THEN "report" ELSE "exit"

\* ------------------------------------------------------------ main
\* main(): `if semitones == 0: ... return`, else call process_audio_file
MainDispatch ==
    /\ pc = "main"
    /\ IF semitones = 0
       THEN /\ report' = "no_adjustment"
            /\ pc' = "exit"
       ELSE /\ report' = report
            /\ pc' = "load"
    /\ UNCHANGED << inputs, shift_vars, plan, files, popen_calls, encoder,
                    progress_vars, returncode, error, result >>

\* main(): the message after process_audio_file returned
MainReport ==
    /\ pc = "report"
    /\ report' = IF result = "True" THEN "completed" ELSE "failed"
    /\ pc' = "exit"
    /\ UNCHANGED << inputs, shift_vars, plan, files, popen_calls, encoder,
                    progress_vars, returncode, error, result >>

\* KeyboardInterrupt while main() runs: `except KeyboardInterrupt: sys.exit(0)`;
\* nothing is cleaned up and a started ffmpeg is left as it is
Interrupt ==
    /\ pc \notin {"exit"}
    /\ report' = IF entry = "main" THEN "cancelled" ELSE "raised"
    /\ pc' = "exit"
    /\ UNCHANGED << inputs, shift_vars, plan, files, popen_calls, encoder,
                    progress_vars, returncode, error, result >>

\* ------------------------------------------------------------ process_audio_file
\* librosa.load: the decode succeeds or raises (outer except: return False)
Load ==
    /\ pc = "load"
    /\ \/ /\ pc' = "shift"
          /\ UNCHANGED << error, result >>
       \/ /\ error' = "decode"
          /\ Return("False")
    /\ UNCHANGED << inputs, shift_vars, plan, files, popen_calls, encoder,
                    progress_vars, returncode, report >>

\* one call of vinyl_pitch_shift: the mono buffer, or the next channel
ShiftChannel ==
    /\ pc = "shift"
    /\ Len(shifted_channels) < Len(audio_data)
    /\ LET r == vinyl_pitch_shift(audio_data[Len(shifted_channels) + 1],
                                  sample_rate, semitones)
       IN  /\ resample_calls' = resample_calls \o r.calls
           /\ IF r.raised
              THEN /\ error' = "resample"
                   /\ Return("False")
                   /\ UNCHANGED shifted_channels
              ELSE /\ shifted_channels' = Append(shifted_channels, r.audio)
                   /\ UNCHANGED << pc, error, result >>
    /\ UNCHANGED << inputs, plan, files, popen_calls, encoder, progress_vars,
                    returncode, report >>

\* the format probe and the output decision
Plan ==
    /\ pc = "shift"
    /\ Len(shifted_channels) = Len(audio_data)
    /\ plan' = PlanOutput(input_suffix, probe)
    /\ pc' = "write_open"
    /\ UNCHANGED << inputs, shift_vars, files, popen_calls, encoder,
                    progress_vars, returncode, error, result, report >>

\* the path sf.write is given
WriteTarget == IF plan.will_convert_to_mp3 THEN "temp_wav" ELSE "output"

\* variant: the write error swallowed, the pipeline going on
OnWriteError_continue ==
    /\ error' = "write"
    /\ result' = result
    /\ pc' = IF plan.will_convert_to_mp3 THEN "popen" ELSE "report"

\* sf.write raised: the outer `except Exception` returns False
OnWriteError ==
    /\ error' = "write"
    /\ Return("False")

\* sf.write opens the file for writing (creating it), or raises before that
WriteOpen ==
    /\ pc = "write_open"
    /\ \/ /\ files' = [files EXCEPT ![WriteTarget] = "partial"]
          /\ pc' = "write_data"
          /\ UNCHANGED << error, result >>
       \/ /\ OnWriteError
          /\ UNCHANGED files
    /\ UNCHANGED << inputs, shift_vars, plan, popen_calls, encoder,
                    progress_vars, returncode, report >>

\* sf.write writes the samples and closes the file, or raises part-way
WriteData ==
    /\ pc = "write_data"
    /\ \/ /\ files' = [files EXCEPT ![WriteTarget] = "complete"]
          /\ IF plan.will_convert_to_mp3
             THEN /\ pc' = "popen"
                  /\ UNCHANGED result
             ELSE Return("True")
          /\ UNCHANGED error
       \/ /\ OnWriteError
          /\ UNCHANGED files
    /\ UNCHANGED << inputs, shift_vars, plan, popen_calls, encoder,
                    progress_vars, returncode, report >>

\* ------------------------------------------------------------ the encode step
\* variant: the conversion error reaching the outer handler (return False)
OnConversionError_fatal ==
    /\ error' = "conversion"
    /\ Return("False")

\* `except FileNotFoundError` and `except Exception` of the encode step:
\* a message is printed, control falls through to `return True`
OnConversionError ==
    /\ error' = "conversion"
    /\ Return("True")

\* subprocess.Popen(cmd, ...): ffmpeg is started and opens its output file
\* (-y: overwriting), or the launch raises (FileNotFoundError when there is
\* no ffmpeg, another OSError otherwise)
Popen ==
    /\ pc = "popen"
    /\ popen_calls' = Append(popen_calls, [temp_wav |-> files.temp_wav])
    /\ \/ /\ enc_state' = "running"
          /\ files' = [files EXCEPT !.final_mp3 = "partial"]
          /\ pc' = "read"
          /\ last_progress' = 0
          /\ pbar_n' = 0
          /\ UNCHANGED << error, result >>
       \/ /\ OnConversionError
          /\ UNCHANGED << enc_state, files, progress_vars >>
    /\ UNCHANGED << inputs, shift_vars, plan, enc_exit, pipe, emitted,
                    returncode, report >>

\* one iteration of `for line in process.stdout`
ReadLine ==
    /\ pc = "read"
    /\ pipe # <<>>
    /\ pipe' = Tail(pipe)
    /\ LET line == Head(pipe)
       IN  IF line.key = "out_time_ms"
           THEN IF line.numeric
                THEN /\ IF PctDen > 0
                        THEN /\ pbar_n' = pbar_n + (ProgressOf(line.value) - last_progress)
                             /\ last_progress' = ProgressOf(line.value)
                        ELSE UNCHANGED progress_vars
                     /\ UNCHANGED << pc, error, result >>
                ELSE \* int() raises ValueError
                     /\ OnConversionError
                     /\ UNCHANGED progress_vars
           ELSE UNCHANGED << pc, error, result, progress_vars >>
    /\ UNCHANGED << inputs, shift_vars, plan, files, popen_calls, enc_state,
                    enc_exit, emitted, returncode, report >>

\* variant: the loop also waiting for a report of 100%
StdoutAtEOF_full ==
    /\ pipe = <<>>
    /\ enc_state = "exited"
    /\ last_progress = FullPercent * PctDen

\* the iteration over process.stdout ends when the pipe is drained and closed
StdoutAtEOF ==
    /\ pipe = <<>>
    /\ enc_state = "exited"

\* the for loop ends and the progress bar is closed
ReadEOF ==
    /\ pc = "read"
    /\ StdoutAtEOF
    /\ pc' = "communicate"
    /\ UNCHANGED << inputs, shift_vars, plan, files, popen_calls, encoder,
                    progress_vars, returncode, error, result, report >>

\* process.communicate(): waits for the exit and sets process.returncode
Communicate ==
    /\ pc = "communicate"
    /\ enc_state = "exited"
    /\ returncode' = enc_exit
    /\ pc' = "check"
    /\ UNCHANGED << inputs, shift_vars, plan, files, popen_calls, encoder,
                    progress_vars, error, result, report >>

\* variant: the temporary WAV removed whatever the return code
ShouldUnlink_always == TRUE

\* `if process.returncode == 0`
ShouldUnlink == returncode = <<0>>

\* the branch on the return code: unlink the temporary WAV (which may itself
\* raise), or keep it; both ways end in `return True`
CheckReturnCode ==
    /\ pc = "check"
    /\ IF ShouldUnlink
       THEN \/ /\ files' = [files EXCEPT !.temp_wav = "absent"]
               /\ Return("True")
               /\ UNCHANGED error
            \/ /\ OnConversionError
               /\ UNCHANGED files
       ELSE /\ Return("True")
            /\ UNCHANGED << files, error >>
    /\ UNCHANGED << inputs, shift_vars, plan, popen_calls, encoder,
                    progress_vars, returncode, report >>

\* ------------------------------------------------------------ ffmpeg
\* ffmpeg writes one line of its progress report to stdout
EncoderEmit ==
    /\ enc_state = "running"
    /\ emitted < MaxLines
    /\ \E line \in ProgressLines : pipe' = Append(pipe, line)
    /\ emitted' = emitted + 1
    /\ UNCHANGED << inputs, pc, shift_vars, plan, files, popen_calls,
                    enc_state, enc_exit, progress_vars, returncode, error,
                    result, report >>

\* ffmpeg exits, closing stdout: with 0 the MP3 is complete
EncoderExit ==
    /\ enc_state = "running"
    /\ \E code \in ExitCodes :
          /\ enc_exit' = <<code>>
          /\ IF code = 0
             THEN files' = [files EXCEPT !.final_mp3 = "complete"]
             ELSE UNCHANGED files
    /\ enc_state' = "exited"
    /\ UNCHANGED << inputs, pc, shift_vars, plan, popen_calls, pipe, emitted,
                    progress_vars, returncode, error, result, report >>

\* ------------------------------------------------------------ specification
\* the steps of the control thread
Control ==
    \/ MainDispatch
    \/ Load
    \/ ShiftChannel
    \/ Plan
    \/ WriteOpen
    \/ WriteData
    \/ Popen
    \/ ReadLine
    \/ ReadEOF
    \/ Communicate
    \/ CheckReturnCode
    \/ MainReport

Next ==
    \/ Control
    \/ Interrupt
    \/ EncoderEmit
    \/ EncoderExit

Spec == Init /\ [][Next]_vars

\* The runs of main() on an MP3 file that the format probe cannot read: the
\* inputs behind the encode step, which is the same for every input that
\* reaches it.
InitLossy ==
    /\ Init
    /\ entry = "main"
    /\ input_suffix = Mp3Suffix
    /\ ~probe.ok

\* the control thread keeps running; ffmpeg and the user are not obliged to act
FairSpec == InitLossy /\ [][Next]_vars /\ WF_vars(Control)

\* ------------------------------------------------------------ properties
\* the input suffixes that are MP3 / M4A / Opus, letter by letter
Mp3Inputs == { <<".", "m", "p", "3">>, <<".", "M", "P", "3">> }
FallbackInputs ==
    { <<".", "m", "4", "a">>, <<".", "M", "4", "A">>, <<".", "o", "p", "u", "s">> }

FlacPlan(p) ==
    /\ p.output_format = "FLAC"
    /\ p.output_subtype = "PCM_24"
    /\ ~p.will_convert_to_mp3

\* the intermediate WAV was written and the encode step was entered
EncodeStepEntered == popen_calls # <<>>

\* C1: from one progress report to the next the percentage (last_progress,
\* and the position of the bar) never decreases, and it never exceeds 100.
C1_ProgressMonotone ==
    [][ /\ last_progress' >= last_progress
        /\ pbar_n' >= pbar_n
        /\ last_progress' <= FullPercent * PctDen'
        /\ pbar_n' <= FullPercent * PctDen' ]_vars

\* C2: once the encode step is entered, whatever goes wrong in it (launch
\* failure, non-zero exit, any other error) process_audio_file returns True,
\* and after such a failure the intermediate WAV is there as the deliverable.
C2_TranscodeFailureIsSuccess ==
    (EncodeStepEntered /\ result # "none") =>
        /\ result = "True"
        /\ (error = "conversion" \/ returncode = <<1>>) =>
              files.temp_wav = "complete"

C2_Witness ==
    /\ result = "True"
    /\ returncode = <<1>>
    /\ files.temp_wav = "complete"
    /\ report = "completed"

\* C3 as stated: when the pipeline stops after the encode step was entered,
\* the intermediate is deleted if and only if ffmpeg has exited with code 0.
C3_DeletedIffExitZero ==
    [][ (pc # "exit" /\ pc' = "exit" /\ EncodeStepEntered) =>
            ((files'.temp_wav = "absent") <=> (enc_exit' = <<0>>)) ]_vars

\* C3 amended: the intermediate is deleted exactly when process_audio_file
\* has seen the return code 0 and has returned without a conversion error
\* (then the MP3 is complete); in every other case after the encode step was
\* entered the intermediate is still there, completely written.
C3_DeletedOnlyAfterSeenExitZero ==
    EncodeStepEntered =>
        /\ files.temp_wav \in {"absent", "complete"}
        /\ (files.temp_wav = "absent") <=>
              (returncode = <<0>> /\ result = "True" /\ error = "none")
        /\ (files.temp_wav = "absent") =>
              (enc_exit = <<0>> /\ files.final_mp3 = "complete")

C3_Witness ==
    /\ EncodeStepEntered
    /\ files.temp_wav = "absent"
    /\ files.final_mp3 = "complete"
    /\ report = "completed"

\* C4: ffmpeg is launched only when the plan asks for the MP3 conversion and
\* only with the intermediate WAV completely written; a failed write makes
\* process_audio_file return False without any launch, and there is no MP3
\* output without a launch.
C4_LaunchOnlyAfterIntermediate ==
    /\ \A i \in DOMAIN popen_calls : popen_calls[i].temp_wav = "complete"
    /\ EncodeStepEntered => plan.will_convert_to_mp3
    /\ (enc_state # "none" \/ files.final_mp3 # "absent") => EncodeStepEntered
    /\ error = "write" =>
          /\ result = "False"
          /\ ~EncodeStepEntered
          /\ enc_state = "none"
          /\ files.final_mp3 = "absent"

C4_Witness ==
    /\ plan.will_convert_to_mp3
    /\ error = "write"
    /\ files.temp_wav = "partial"
    /\ report = "failed"

\* C5 as stated: a failed format probe, or an .m4a/.opus input, always gives
\* the FLAC / PCM_24 plan without conversion, whatever the suffix is.
C5_FallbackIsFlac ==
    (plan # NoPlan /\ (~probe.ok \/ input_suffix \in FallbackInputs)) =>
        FlacPlan(plan)

\* C5 amended: an .m4a/.opus input, or an input that is not an MP3 and whose
\* format probe failed, gives the FLAC / PCM_24 plan without conversion.
C5_FallbackIsFlacUnlessMp3 ==
    (/\ plan # NoPlan
     /\ input_suffix \notin Mp3Inputs
     /\ (~probe.ok \/ input_suffix \in FallbackInputs)) =>
        FlacPlan(plan)

C5_Witness ==
    /\ FlacPlan(plan)
    /\ ~probe.ok
    /\ input_suffix = <<".", "w", "a", "v">>

\* C6: an MP3 input (any letter case, any probe result) gets the WAV / PCM_16
\* intermediate with conversion; an input that is neither MP3 nor M4A/Opus
\* and whose probe succeeded keeps its own format and subtype, no conversion.
C6_Mp3AndPreserve ==
    plan # NoPlan =>
        /\ input_suffix \in Mp3Inputs =>
              /\ plan.will_convert_to_mp3
              /\ plan.output_format = "WAV"
              /\ plan.output_subtype = "PCM_16"
        /\ (input_suffix \notin (Mp3Inputs \cup FallbackInputs) /\ probe.ok) =>
              /\ ~plan.will_convert_to_mp3
              /\ plan.output_format = probe.format
              /\ plan.output_subtype = probe.subtype
              /\ plan.output_suffix = input_suffix

C6_Witness ==
    /\ input_suffix = <<".", "M", "P", "3">>
    /\ ~probe.ok
    /\ plan.will_convert_to_mp3
    /\ plan.output_subtype = "PCM_16"

\* C7: after a failed write process_audio_file has returned False, nothing
\* later has run, and the final-named output is absent or completely written.
C7_NoPartialFinalFile ==
    error = "write" =>
        /\ result = "False"
        /\ enc_state = "none"
        /\ files.output \in {"absent", "complete"}
        /\ files.final_mp3 \in {"absent", "complete"}

\* C8: through main, an adjustment of 0 ends with the "no adjustment" report
\* and without any resampling, write or launch; and vinyl_pitch_shift with 0
\* semitones returns each buffer it is given unchanged, without resampling.
C8_ZeroIsNoOp ==
    semitones = 0 =>
        /\ resample_calls = <<>>
        /\ \A c \in DOMAIN shifted_channels : shifted_channels[c] = audio_data[c]
        /\ entry = "main" =>
              /\ pc \in {"main", "exit"}
              /\ shifted_channels = <<>>
              /\ \A f \in DOMAIN files : files[f] = "absent"
              /\ popen_calls = <<>>
              /\ enc_state = "none"
              /\ result = "none"
              /\ (pc = "exit" /\ report # "cancelled") => report = "no_adjustment"

C8_Witness ==
    /\ entry = "main"
    /\ semitones = 0
    /\ pc = "exit"
    /\ report = "no_adjustment"

\* C9: once ffmpeg has exited (any exit code, any progress lines), the
\* pipeline reaches its end; it does not wait for a report of 100%.
C9_ExitEndsPipeline == (enc_state = "exited") ~> (pc = "exit")

C9_Witness ==
    /\ pc = "exit"
    /\ report = "completed"
    /\ returncode = <<0>>
    /\ last_progress < FullPercent * PctDen
    /\ emitted > 0

\* round(sr / ratio): the nearest integer, a tie going to the even one
RoundDiv(sr, ratio) ==
    CHOOSE t \in 0..(2 * sr) :
        LET q16 == Pow4(2 * sr) * ratio.p4den
            lo == IF t = 0 THEN 0 ELSE Pow4(2 * t - 1) * ratio.p4num
            hi == Pow4(2 * t + 1) * ratio.p4num
        IN  /\ lo <= q16
            /\ q16 <= hi
            /\ (q16 = lo /\ t > 0) => t % 2 = 0
            /\ q16 = hi => t % 2 = 0

\* C10: for a non-zero adjustment every call of the resampler is given
\* round(source_rate / rate_ratio) as its target rate, the same for every
\* channel.
C10_TargetRateIsRounded ==
    \A i \in DOMAIN resample_calls :
        /\ resample_calls[i].orig_sr = sample_rate
        /\ resample_calls[i].target_sr =
              RoundDiv(sample_rate, semitones_to_ratio(semitones))
        /\ resample_calls[i].target_sr = resample_calls[1].target_sr

\* C11: once process_audio_file has returned from the encode step, by any
\* path out of it, the ffmpeg process it launched (if the launch succeeded)
\* has exited: none is still running and writing the MP3.
C11_NoEncoderLeftRunning ==
    (EncodeStepEntered /\ result # "none") => enc_state # "running"

=============================================================================
